---- MODULE Spec2Model ----
(***************************************************************************)
(* Smart Task Tracker API (src/api/server.js with the Task and             *)
(* FocusSession schemas of src/api/models/FocusSession.js).                *)
(*                                                                         *)
(* The document store holds two collections, tasks and sessions.  A        *)
(* request handler runs from one await to the next without interruption;   *)
(* handlers of different requests interleave at their awaits.  A handler   *)
(* that awaits two store calls (PATCH /tasks/:id, POST /focus/stop) is     *)
(* therefore two actions, with the handler's local variables kept in       *)
(* reqs between them; a handler with a single store call is one action.    *)
(* Time is counted in clock steps of ClockStepMs milliseconds.             *)
(***************************************************************************)
EXTENDS Integers, Sequences, FiniteSets, TLC

VARIABLES
    now,            \* the wall clock read by new Date(), in clock steps
    tz,             \* the server's time-zone offset (local = UTC + tz), in clock steps
    tasks,          \* Task collection: _id -> document
    nextTaskId,     \* the next _id the store assigns to a Task
    sessions,       \* FocusSession collection: _id -> document
    nextSessionId,  \* the next _id the store assigns to a FocusSession
    reqs,           \* handlers suspended at their second await: slot -> locals
    res,            \* the response sent last: route, id, HTTP status, body
    unhandled       \* TRUE once a rejected promise has left a handler uncaught

vars == <<now, tz, tasks, nextTaskId, sessions, nextSessionId, reqs, res, unhandled>>

----------------------------------------------------------------------------
(* Bounds of the model *)

MaxTasks == 1
MaxSessions == 1
MaxInFlight == 2
MaxTime == 3

Slots == 1..MaxInFlight
Times == 0..MaxTime

----------------------------------------------------------------------------
(* Values *)

\* JavaScript null / undefined in a Date or ObjectId field
Null == -1

\* A path parameter or body id that mongoose.Types.ObjectId.isValid rejects
BadId == 0

\* Well-formed identifiers the requests use: every id the store can assign
\* within the bounds, whether or not a document has it at the moment
TaskIds == 1..MaxTasks
SessionIds == 1..MaxSessions

\* Variant: every id passes the check
isValidAny(id) == TRUE

isValid(id) == id # BadId /\ id # Null

Statuses == {"todo", "doing", "done"}
Priorities == {1, 2, 3}

\* Variant: completedAt is on the allow-list too
allowedWithCompletedAt ==
    {"title", "notes", "status", "priority", "dueDate", "tags", "completedAt"}

allowed == {"title", "notes", "status", "priority", "dueDate", "tags"}

MsPerMinute == 60000

\* One clock step: a quarter of a minute
ClockStepMs == MsPerMinute \div 4

Has(body, k) == k \in DOMAIN body

\* Destructuring with a default: the default applies when the key is absent
Field(body, k, default) == IF Has(body, k) THEN body[k] ELSE default

\* dueDate ? new Date(dueDate) : null   (0 is falsy)
ToDate(v) == IF v = Null \/ v = 0 THEN Null ELSE v

Idle == [pc |-> "idle"]

\* No response sent yet
NoRes == [route |-> "none", id |-> Null, status |-> 0, error |-> "", body |-> <<>>]

\* res.status(status).json(body)
Respond(route, id, status, body) ==
    [route |-> route, id |-> id, status |-> status, error |-> "", body |-> body]

\* res.status(status).json({ error })
RespondError(route, id, status, error) ==
    [route |-> route, id |-> id, status |-> status, error |-> error, body |-> <<>>]

FreeSlot(r) == reqs[r].pc = "idle"

RECURSIVE DescSeq(_)
\* The ids of S in descending order: sort({createdAt: -1, _id: -1}), the store
\* assigning ascending ids
DescSeq(S) ==
    IF S = {} THEN <<>>
    ELSE LET m == CHOOSE x \in S : \A y \in S : y <= x
         IN <<m>> \o DescSeq(S \ {m})

----------------------------------------------------------------------------
(* Task schema *)

\* Schema validation of a whole Task document (Task.create)
TaskValid(doc) ==
    /\ doc.title # ""
    /\ doc.status \in Statuses
    /\ doc.priority \in Priorities

\* Update validators (runValidators: true) look only at the paths being set
UpdateValid(update) ==
    /\ Has(update, "title") => update.title # ""
    /\ Has(update, "status") => update.status \in Statuses
    /\ Has(update, "priority") => update.priority \in Priorities

\* Variant: the store drops the paths that are not on the allow-list
ApplyUpdateAllowedOnly(doc, update) ==
    [k \in DOMAIN doc |->
        IF Has(update, k) /\ k \in allowed THEN update[k] ELSE doc[k]]

\* $set of the update's paths on a stored document
ApplyUpdate(doc, update) ==
    [k \in DOMAIN doc |-> IF Has(update, k) THEN update[k] ELSE doc[k]]

----------------------------------------------------------------------------
(* Request inputs the model draws from *)

CreateBodies ==
    { [title |-> "a"],
      [title |-> "a", status |-> "doing"],
      [title |-> "a", status |-> "done", completedAt |-> 0],
      [title |-> "a", status |-> "bogus"],
      [title |-> "a", priority |-> 9],
      [notes |-> "n"] }

PatchBodies ==
    { [status |-> "todo"],
      [status |-> "doing"],
      [status |-> "done"],
      [status |-> "done", completedAt |-> 0],
      [status |-> "bogus"],
      [completedAt |-> 0],
      [title |-> "b", notes |-> "n", priority |-> 3, dueDate |-> 1,
       tags |-> <<"x">>, completedAt |-> 0],
      [priority |-> 9] }

\* ?status= of GET /tasks ("" when the parameter is absent)
StatusQueries == {"", "done", "bogus"}

----------------------------------------------------------------------------
(* GET /tasks *)

\* Lines 54-56: a status outside the enum is ignored
Where(status) ==
    IF status # "" /\ status \in Statuses THEN [status |-> status] ELSE <<>>

Find(where) ==
    {i \in DOMAIN tasks : Has(where, "status") => tasks[i].status = where.status}

\* The other filters and sort keys of the route are not drawn: the request
\* carries the status filter only and the default sort
GetTasks(status) ==
    /\ res' = Respond("GET /tasks", Null, 200, DescSeq(Find(Where(status))))
    /\ UNCHANGED <<now, tz, tasks, nextTaskId, sessions, nextSessionId, reqs, unhandled>>

----------------------------------------------------------------------------
(* POST /tasks *)

NewTask(body) ==
    [ title       |-> Field(body, "title", ""),
      notes       |-> Field(body, "notes", ""),
      status      |-> Field(body, "status", "todo"),
      priority    |-> Field(body, "priority", 2),
      dueDate     |-> ToDate(Field(body, "dueDate", Null)),
      tags        |-> Field(body, "tags", <<>>),
      completedAt |-> Null ]

PostTasks(body) ==
    /\ IF ~Has(body, "title") \/ body.title = ""
         THEN /\ res' = RespondError("POST /tasks", Null, 400, "title is required")
              /\ UNCHANGED <<tasks, nextTaskId>>
       ELSE IF ~TaskValid(NewTask(body))
         THEN /\ res' = RespondError("POST /tasks", Null, 400, "validation failed")
              /\ UNCHANGED <<tasks, nextTaskId>>
       ELSE /\ nextTaskId <= MaxTasks
            /\ tasks' = (nextTaskId :> NewTask(body)) @@ tasks
            /\ nextTaskId' = nextTaskId + 1
            /\ res' = Respond("POST /tasks", nextTaskId, 201, <<>>)
    /\ UNCHANGED <<now, tz, sessions, nextSessionId, reqs, unhandled>>

----------------------------------------------------------------------------
(* PATCH /tasks/:id *)

\* Lines 122-127: copy the allow-listed keys, coerce priority and dueDate
BuildUpdate(body) ==
    [k \in allowed \cap DOMAIN body |->
        IF k = "dueDate" THEN ToDate(body[k]) ELSE body[k]]

\* Variant: leaving done does not clear completedAt
TransitionNoClear(update, current, clock) ==
    IF current # "done" /\ update.status = "done"
      THEN ("completedAt" :> clock) @@ update
      ELSE update

\* Variant: reaching done does not set completedAt
TransitionNoSet(update, current, clock) ==
    IF current = "done" /\ update.status # "done"
      THEN ("completedAt" :> Null) @@ update
      ELSE update

\* Lines 132-137: the status-transition rule, on the status findById returned
Transition(update, current, clock) ==
    IF current # "done" /\ update.status = "done"
      THEN ("completedAt" :> clock) @@ update
    ELSE IF current = "done" /\ update.status # "done"
      THEN ("completedAt" :> Null) @@ update
    ELSE update

\* findByIdAndUpdate(id, update, {new: true, runValidators: true}) and the
\* response: the update is validated before the store looks the document up
FindByIdAndUpdate(id, update) ==
    IF ~UpdateValid(update)
      THEN /\ res' = RespondError("PATCH /tasks/:id", id, 400, "validation failed")
           /\ UNCHANGED tasks
    ELSE IF id \notin DOMAIN tasks
      THEN /\ res' = RespondError("PATCH /tasks/:id", id, 404, "not found")
           /\ UNCHANGED tasks
    ELSE /\ tasks' = [tasks EXCEPT ![id] = ApplyUpdate(tasks[id], update)]
         /\ res' = Respond("PATCH /tasks/:id", id, 200, <<>>)

\* A request whose handler awaits one store call: an invalid id (none), or a
\* body without status (findByIdAndUpdate alone)
PatchTask(id, body) ==
    /\ LET update == BuildUpdate(body) IN
       IF ~isValid(id)
         THEN /\ res' = RespondError("PATCH /tasks/:id", id, 400, "invalid id")
              /\ UNCHANGED tasks
       ELSE /\ ~Has(update, "status")
            /\ FindByIdAndUpdate(id, update)
    /\ UNCHANGED <<now, tz, nextTaskId, sessions, nextSessionId, reqs, unhandled>>

\* A request with a status in its body, from its arrival to the await of
\* findByIdAndUpdate: the findById read and the transition rule
PatchTaskStatus(r, id, body) ==
    /\ FreeSlot(r)
    /\ isValid(id)
    /\ LET update == BuildUpdate(body) IN
       /\ Has(update, "status")
       /\ IF id \notin DOMAIN tasks
            THEN /\ res' = RespondError("PATCH /tasks/:id", id, 404, "not found")
                 /\ UNCHANGED reqs
          ELSE /\ reqs' = [reqs EXCEPT ![r] =
                     [ pc      |-> "findByIdAndUpdate",
                       id      |-> id,
                       current |-> tasks[id].status,
                       update  |-> Transition(update, tasks[id].status, now) ]]
               /\ UNCHANGED res
    /\ UNCHANGED <<now, tz, tasks, nextTaskId, sessions, nextSessionId, unhandled>>

\* The rest of that handler: findByIdAndUpdate and the response
PatchTaskUpdate(r) ==
    /\ reqs[r].pc = "findByIdAndUpdate"
    /\ FindByIdAndUpdate(reqs[r].id, reqs[r].update)
    /\ reqs' = [reqs EXCEPT ![r] = Idle]
    /\ UNCHANGED <<now, tz, nextTaskId, sessions, nextSessionId, unhandled>>

----------------------------------------------------------------------------
(* DELETE /tasks/:id *)

DeleteTask(id) ==
    /\ IF ~isValid(id)
         THEN /\ res' = RespondError("DELETE /tasks/:id", id, 400, "invalid id")
              /\ UNCHANGED tasks
       ELSE IF id \notin DOMAIN tasks
         THEN /\ res' = RespondError("DELETE /tasks/:id", id, 404, "not found")
              /\ UNCHANGED tasks
       ELSE /\ tasks' = [i \in DOMAIN tasks \ {id} |-> tasks[i]]
            /\ res' = Respond("DELETE /tasks/:id", id, 200, <<>>)
    /\ UNCHANGED <<now, tz, nextTaskId, sessions, nextSessionId, reqs, unhandled>>

----------------------------------------------------------------------------
(* FocusSession: POST /focus/start, POST /focus/stop, GET /focus/sessions *)

\* Variant: Math.floor in place of Math.round
MathFloor(num, den) == num \div den

\* Math.round(num / den) for den > 0: the nearest integer, a half rounding up
MathRound(num, den) == (2 * num + den) \div (2 * den)

MathMax(a, b) == IF a >= b THEN a ELSE b

MathMin(a, b) == IF a <= b THEN a ELSE b

\* Lines 269-270, the two Dates in clock steps
Minutes(startedAt, endedAt) ==
    LET ms == (endedAt - startedAt) * ClockStepMs
    IN MathMax(0, MathRound(ms, MsPerMinute))

\* taskId values of POST /focus/start (Null: no taskId in the body)
TaskIdInputs == {Null, BadId} \cup TaskIds

\* sessionId values of POST /focus/stop (Null: no sessionId in the body)
SessionIdInputs == {Null, BadId} \cup SessionIds

PostFocusStart(taskId) ==
    /\ nextSessionId <= MaxSessions
    /\ sessions' = (nextSessionId :>
           [ taskId      |-> IF taskId # Null /\ isValid(taskId) THEN taskId ELSE Null,
             startedAt   |-> now,
             endedAt     |-> now,
             durationMin |-> 0 ]) @@ sessions
    /\ nextSessionId' = nextSessionId + 1
    /\ res' = Respond("POST /focus/start", nextSessionId, 201, <<>>)
    /\ UNCHANGED <<now, tz, tasks, nextTaskId, reqs, unhandled>>

\* Variant: the handler also assigns the stop time to startedAt
ModifiedWithStart(loaded, doc) ==
    [k \in {f \in DOMAIN doc : doc[f] # loaded[f]} \cup {"startedAt"} |->
        IF k = "startedAt" THEN doc.endedAt ELSE doc[k]]

\* The paths of a loaded document that the handler's assignments changed:
\* save() sends a $set of these alone
Modified(loaded, doc) ==
    [k \in {f \in DOMAIN doc : doc[f] # loaded[f]} |-> doc[k]]

\* From the request's arrival to the await of save(): the sessionId check,
\* the findById read and the assignments to the loaded document
PostFocusStop(r, sessionId) ==
    /\ FreeSlot(r)
    /\ IF sessionId = Null \/ ~isValid(sessionId)
         THEN /\ res' = RespondError("POST /focus/stop", sessionId, 400, "sessionId required")
              /\ UNCHANGED reqs
       ELSE IF sessionId \notin DOMAIN sessions
         THEN /\ res' = RespondError("POST /focus/stop", sessionId, 404, "session not found")
              /\ UNCHANGED reqs
       ELSE LET session == sessions[sessionId]
                doc == [session EXCEPT
                          !.endedAt = now,
                          !.durationMin = Minutes(session.startedAt, now)]
            IN /\ reqs' = [reqs EXCEPT ![r] =
                     [ pc     |-> "save",
                       id     |-> sessionId,
                       doc    |-> doc,
                       update |-> Modified(session, doc) ]]
               /\ UNCHANGED res
    /\ UNCHANGED <<now, tz, tasks, nextTaskId, sessions, nextSessionId, unhandled>>

\* The rest of that handler: save() and the response with the handler's document
PostFocusStopSave(r) ==
    /\ reqs[r].pc = "save"
    /\ sessions' = [sessions EXCEPT
                      ![reqs[r].id] = ApplyUpdate(sessions[reqs[r].id], reqs[r].update)]
    /\ res' = Respond("POST /focus/stop", reqs[r].id, 200, reqs[r].doc)
    /\ reqs' = [reqs EXCEPT ![r] = Idle]
    /\ UNCHANGED <<now, tz, tasks, nextTaskId, nextSessionId, unhandled>>

MaxLimit == 100
DefaultLimit == 20

\* ?limit= of GET /focus/sessions (Null: the parameter is absent)
LimitQueries == {Null, 1}

\* populate({path: "taskId", select: "title"}): the title of the task referred
\* to, "" when there is no reference or no such task any more
Populate(taskId) ==
    IF taskId \in DOMAIN tasks THEN tasks[taskId].title ELSE ""

GetFocusSessions(query) ==
    /\ LET limit == MathMin(MaxLimit, IF query = Null THEN DefaultLimit ELSE query)
           found == DescSeq(DOMAIN sessions)
           page == SubSeq(found, 1, MathMin(limit, Len(found)))
       IN res' = Respond("GET /focus/sessions", Null, 200,
                     [i \in DOMAIN page |->
                        [id |-> page[i], task |-> Populate(sessions[page[i]].taskId)]])
    /\ UNCHANGED <<now, tz, tasks, nextTaskId, sessions, nextSessionId, reqs, unhandled>>

----------------------------------------------------------------------------
(* GET /stats/overview *)

MsPerDay == 24 * 60 * MsPerMinute

\* One calendar day in clock steps
Day == MsPerDay \div ClockStepMs

StreakDays == 60
WeekDaysBack == 6

\* Variant: setUTCHours, the midnight of d's UTC day
startOfDayUTC(d) == (d \div Day) * Day

\* setHours(0, 0, 0, 0): midnight of d's day in the server's local time
startOfDay(d) == ((d + tz) \div Day) * Day - tz

\* setDate(getDate() - n) on today's local midnight
startOfNDaysAgo(n) == startOfDay(now) - n * Day

\* toISOString().slice(0, 10): the UTC calendar day of an instant, as a day number
ISODate(t) == t \div Day

\* $dateToString with format "%Y-%m-%d" and no timezone: the UTC calendar day
DateToString(t) == t \div Day

\* completedAt: {$gte: since}; a null completedAt matches no date range
DoneSince(since) ==
    {i \in DOMAIN tasks : /\ tasks[i].status = "done"
                          /\ tasks[i].completedAt # Null
                          /\ tasks[i].completedAt >= since}

\* Lines 201-210: the days with a completion in the trailing StreakDays days
DaysWith == {DateToString(tasks[i].completedAt) : i \in DoneSince(startOfNDaysAgo(StreakDays))}

RECURSIVE StreakFrom(_)
\* Lines 212-217, from loop index i on
StreakFrom(i) ==
    IF i < StreakDays /\ ISODate(startOfNDaysAgo(i)) \in DaysWith
      THEN 1 + StreakFrom(i + 1)
      ELSE 0

RECURSIVE SumDuration(_)
\* $group: {_id: null, minutes: {$sum: "$durationMin"}}
SumDuration(S) ==
    IF S = {} THEN 0
    ELSE LET i == CHOOSE x \in S : TRUE
         IN sessions[i].durationMin + SumDuration(S \ {i})

\* Lines 219-224: no matching session gives no group, and ?? 0
WeeklyFocusMinutes ==
    SumDuration({i \in DOMAIN sessions :
                    sessions[i].startedAt >= startOfNDaysAgo(WeekDaysBack)})

\* Lines 192-226.  The handler's three reads are taken at one instant: no
\* other request changes the store while the handler runs
GetStatsOverview ==
    /\ res' = Respond("GET /stats/overview", Null, 200,
                 [ todayCompleted     |-> Cardinality(DoneSince(startOfDay(now))),
                   streak             |-> StreakFrom(0),
                   weeklyFocusMinutes |-> WeeklyFocusMinutes ])
    /\ UNCHANGED <<now, tz, tasks, nextTaskId, sessions, nextSessionId, reqs, unhandled>>

----------------------------------------------------------------------------
(* A store call that rejects: the handler's catch block answers, where the
   handler has one *)

\* GET /tasks has no try/catch: the rejection of Task.find leaves the handler
\* uncaught and no response is sent
GetTasksRejected ==
    /\ unhandled' = TRUE
    /\ UNCHANGED <<now, tz, tasks, nextTaskId, sessions, nextSessionId, reqs, res>>

PostTasksRejected(body) ==
    /\ Has(body, "title") /\ body.title # ""
    /\ res' = RespondError("POST /tasks", Null, 400, "store error")
    /\ UNCHANGED <<now, tz, tasks, nextTaskId, sessions, nextSessionId, reqs, unhandled>>

\* The first store call of PATCH rejects: findById with a status in the body,
\* findByIdAndUpdate without
PatchTaskRejected(id) ==
    /\ isValid(id)
    /\ res' = RespondError("PATCH /tasks/:id", id, 400, "store error")
    /\ UNCHANGED <<now, tz, tasks, nextTaskId, sessions, nextSessionId, reqs, unhandled>>

PatchTaskUpdateRejected(r) ==
    /\ reqs[r].pc = "findByIdAndUpdate"
    /\ res' = RespondError("PATCH /tasks/:id", reqs[r].id, 400, "store error")
    /\ reqs' = [reqs EXCEPT ![r] = Idle]
    /\ UNCHANGED <<now, tz, tasks, nextTaskId, sessions, nextSessionId, unhandled>>

DeleteTaskRejected(id) ==
    /\ isValid(id)
    /\ res' = RespondError("DELETE /tasks/:id", id, 400, "store error")
    /\ UNCHANGED <<now, tz, tasks, nextTaskId, sessions, nextSessionId, reqs, unhandled>>

GetStatsOverviewRejected ==
    /\ res' = RespondError("GET /stats/overview", Null, 500, "stats failed")
    /\ UNCHANGED <<now, tz, tasks, nextTaskId, sessions, nextSessionId, reqs, unhandled>>

PostFocusStartRejected ==
    /\ res' = RespondError("POST /focus/start", Null, 400, "store error")
    /\ UNCHANGED <<now, tz, tasks, nextTaskId, sessions, nextSessionId, reqs, unhandled>>

PostFocusStopRejected(sessionId) ==
    /\ sessionId # Null /\ isValid(sessionId)
    /\ res' = RespondError("POST /focus/stop", sessionId, 400, "store error")
    /\ UNCHANGED <<now, tz, tasks, nextTaskId, sessions, nextSessionId, reqs, unhandled>>

PostFocusStopSaveRejected(r) ==
    /\ reqs[r].pc = "save"
    /\ res' = RespondError("POST /focus/stop", reqs[r].id, 400, "store error")
    /\ reqs' = [reqs EXCEPT ![r] = Idle]
    /\ UNCHANGED <<now, tz, tasks, nextTaskId, sessions, nextSessionId, unhandled>>

GetFocusSessionsRejected ==
    /\ res' = RespondError("GET /focus/sessions", Null, 400, "bad request")
    /\ UNCHANGED <<now, tz, tasks, nextTaskId, sessions, nextSessionId, reqs, unhandled>>

----------------------------------------------------------------------------
(* The clock: new Date() reads the wall clock, which advances and which an
   adjustment can set back *)

Tick ==
    /\ now < MaxTime
    /\ now' = now + 1
    /\ UNCHANGED <<tz, tasks, nextTaskId, sessions, nextSessionId, reqs, res, unhandled>>

ClockSetBack ==
    /\ \E t \in Times : t < now /\ now' = t
    /\ UNCHANGED <<tz, tasks, nextTaskId, sessions, nextSessionId, reqs, res, unhandled>>

----------------------------------------------------------------------------
(* Specifications *)

\* The state after start(): an empty store, no request in flight
Init ==
    /\ now = 0
    /\ tz = 0
    /\ tasks = <<>>
    /\ nextTaskId = 1
    /\ sessions = <<>>
    /\ nextSessionId = 1
    /\ reqs = [r \in Slots |-> Idle]
    /\ res = NoRes
    /\ unhandled = FALSE

\* The task routes, their requests interleaving at the awaits
Next ==
    \/ \E status \in StatusQueries : GetTasks(status)
    \/ \E body \in CreateBodies : PostTasks(body)
    \/ \E id \in TaskIds \cup {BadId}, body \in PatchBodies : PatchTask(id, body)
    \/ \E r \in Slots, id \in TaskIds, body \in PatchBodies :
          PatchTaskStatus(r, id, body)
    \/ \E r \in Slots : PatchTaskUpdate(r)
    \/ \E id \in TaskIds \cup {BadId} : DeleteTask(id)
    \/ Tick

Spec == Init /\ [][Next]_vars

\* No request is between its two store calls
NoneInFlight == \A r \in Slots : FreeSlot(r)

\* The task routes with every request answered before the next arrives
NextSeq ==
    \/ NoneInFlight /\ \E status \in StatusQueries : GetTasks(status)
    \/ NoneInFlight /\ \E body \in CreateBodies : PostTasks(body)
    \/ NoneInFlight /\ \E id \in TaskIds \cup {BadId}, body \in PatchBodies :
          PatchTask(id, body)
    \/ NoneInFlight /\ \E r \in Slots, id \in TaskIds, body \in PatchBodies :
          PatchTaskStatus(r, id, body)
    \/ \E r \in Slots : PatchTaskUpdate(r)
    \/ NoneInFlight /\ \E id \in TaskIds \cup {BadId} : DeleteTask(id)
    \/ Tick

SpecSeq == Init /\ [][NextSeq]_vars

\* The focus routes, their requests interleaving at the awaits
NextFocus ==
    \/ \E taskId \in TaskIdInputs : PostFocusStart(taskId)
    \/ \E r \in Slots, sessionId \in SessionIdInputs : PostFocusStop(r, sessionId)
    \/ \E r \in Slots : PostFocusStopSave(r)
    \/ \E query \in LimitQueries : GetFocusSessions(query)
    \/ Tick
    \/ ClockSetBack

SpecFocus == Init /\ [][NextFocus]_vars

\* Every route, each store call succeeding or rejecting, one request at a
\* time and the clock standing still (no answer here depends on the time)
NextFaulty ==
    \/ NoneInFlight /\ \E status \in StatusQueries : GetTasks(status)
    \/ NoneInFlight /\ GetTasksRejected
    \/ NoneInFlight /\ \E body \in CreateBodies : PostTasks(body)
    \/ NoneInFlight /\ \E body \in CreateBodies : PostTasksRejected(body)
    \/ NoneInFlight /\ \E id \in TaskIds \cup {BadId}, body \in PatchBodies :
          PatchTask(id, body)
    \/ NoneInFlight /\ \E r \in Slots, id \in TaskIds, body \in PatchBodies :
          PatchTaskStatus(r, id, body)
    \/ NoneInFlight /\ \E id \in TaskIds \cup {BadId} : PatchTaskRejected(id)
    \/ \E r \in Slots : PatchTaskUpdate(r)
    \/ \E r \in Slots : PatchTaskUpdateRejected(r)
    \/ NoneInFlight /\ \E id \in TaskIds \cup {BadId} : DeleteTask(id)
    \/ NoneInFlight /\ \E id \in TaskIds \cup {BadId} : DeleteTaskRejected(id)
    \/ NoneInFlight /\ GetStatsOverview
    \/ NoneInFlight /\ GetStatsOverviewRejected
    \/ NoneInFlight /\ \E taskId \in TaskIdInputs : PostFocusStart(taskId)
    \/ NoneInFlight /\ PostFocusStartRejected
    \/ NoneInFlight /\ \E r \in Slots, sessionId \in SessionIdInputs :
          PostFocusStop(r, sessionId)
    \/ NoneInFlight /\ \E sessionId \in SessionIdInputs : PostFocusStopRejected(sessionId)
    \/ \E r \in Slots : PostFocusStopSave(r)
    \/ \E r \in Slots : PostFocusStopSaveRejected(r)
    \/ NoneInFlight /\ \E query \in LimitQueries : GetFocusSessions(query)
    \/ NoneInFlight /\ GetFocusSessionsRejected

SpecFaulty == Init /\ [][NextFaulty]_vars

----------------------------------------------------------------------------
(* Statistics over a store that has been in use for months *)

QuarterDay == Day \div 4

\* The UTC day the statistics are asked on
StatsDay == 100

\* Server time zones: six hours west of UTC, UTC, six hours east
TzOffsets == {-QuarterDay, 0, QuarterDay}

\* Lengths of the run of consecutive days with a completion
RunLengths == {0, 1, 3, StreakDays - 1, StreakDays, StreakDays + 1}

DoneTask(completedAt) ==
    [ title |-> "a", notes |-> "", status |-> "done", priority |-> 2,
      dueDate |-> Null, tags |-> <<>>, completedAt |-> completedAt ]

\* One task completed on each of len consecutive UTC days, the latest of them
\* skip days before StatsDay, each at quarter q of its day; with stale, also a
\* task that is no longer done and has kept a completedAt of StatsDay
SeededTasks(skip, len, q, stale) ==
    [i \in 1..(len + IF stale THEN 1 ELSE 0) |->
        IF i <= len
          THEN DoneTask((StatsDay - skip - (i - 1)) * Day + q * QuarterDay)
          ELSE [DoneTask(StatsDay * Day + q * QuarterDay) EXCEPT !.status = "doing"]]

Session(startedAt, durationMin) ==
    [ taskId      |-> Null,
      startedAt   |-> startedAt,
      endedAt     |-> startedAt + durationMin * (MsPerMinute \div ClockStepMs),
      durationMin |-> durationMin ]

\* Sessions around the edge of the trailing week, and an open one
SessionCandidates ==
    << Session(StatsDay * Day + QuarterDay, 15),
       Session((StatsDay - WeekDaysBack) * Day, 30),
       Session((StatsDay - WeekDaysBack - 1) * Day + 3 * QuarterDay, 5),
       Session(StatsDay * Day + 2 * QuarterDay, 0) >>

\* The first n candidates
SeededSessions(n) == [i \in 1..n |-> SessionCandidates[i]]

InitStats ==
    /\ tz \in TzOffsets
    /\ now \in {StatsDay * Day + h * QuarterDay : h \in 0..3}
    /\ \E skip \in {0, 1}, len \in RunLengths, q \in {0, 3}, stale \in BOOLEAN :
          /\ tasks = SeededTasks(skip, len, q, stale)
          /\ nextTaskId = len + (IF stale THEN 1 ELSE 0) + 1
    /\ \E n \in 0..Len(SessionCandidates) :
          /\ sessions = SeededSessions(n)
          /\ nextSessionId = n + 1
    /\ reqs = [r \in Slots |-> Idle]
    /\ res = NoRes
    /\ unhandled = FALSE

NextStats == GetStatsOverview

SpecStats == InitStats /\ [][NextStats]_vars

----------------------------------------------------------------------------
(* Properties *)

PatchRoute == "PATCH /tasks/:id"
DeleteRoute == "DELETE /tasks/:id"
StopRoute == "POST /focus/stop"
StatsRoute == "GET /stats/overview"

\* completedAt is present exactly when the status is done
Consistent(doc) == (doc.completedAt # Null) <=> (doc.status = "done")

\* Slot r's request performs its findByIdAndUpdate in this step
Writes(r) == reqs[r].pc = "findByIdAndUpdate" /\ reqs'[r].pc = "idle"

\* Slot r's request performs its findById in this step and goes on
Reads(r) == reqs[r].pc = "idle" /\ reqs'[r].pc = "findByIdAndUpdate"

\* C1 as stated: after any sequence of Create, Update and Delete requests,
\* every stored task has completedAt present if and only if its status is
\* done, tasks created with status done included.
C1_Original == \A t \in DOMAIN tasks : Consistent(tasks[t])

\* C1 amended: with the requests handled one after the other, a stored task
\* has completedAt present only if its status is done, and a task with status
\* done has completedAt absent only if it was created with status done and has
\* been done with completedAt absent ever since.
C1_Amended ==
    [][\A t \in DOMAIN tasks' :
          /\ tasks'[t].completedAt # Null => tasks'[t].status = "done"
          /\ tasks'[t].status = "done" /\ tasks'[t].completedAt = Null =>
                \/ /\ t \notin DOMAIN tasks
                   /\ res'.route = "POST /tasks" /\ res'.status = 201
                \/ /\ t \in DOMAIN tasks
                   /\ tasks[t].status = "done" /\ tasks[t].completedAt = Null]_vars

\* A task created with status done is stored without completedAt
C1_Witness ==
    /\ res.route = "POST /tasks" /\ res.status = 201
    /\ res.id \in DOMAIN tasks
    /\ tasks[res.id].status = "done"
    /\ tasks[res.id].completedAt = Null

\* C2: an Update that finds the status not done and sets it to done takes the
\* time of the update as completedAt, one that finds it done and sets another
\* status takes completedAt absent, and the successful findByIdAndUpdate writes
\* the new status and that completedAt in the same store write.
C2_TransitionWritten ==
    [][\A r \in Slots :
          /\ Reads(r) =>
                LET q == reqs'[r] IN
                /\ tasks[q.id].status # "done" /\ q.update.status = "done" =>
                      Has(q.update, "completedAt") /\ q.update.completedAt = now
                /\ tasks[q.id].status = "done" /\ q.update.status # "done" =>
                      Has(q.update, "completedAt") /\ q.update.completedAt = Null
          /\ Writes(r) /\ res'.status = 200 =>
                LET q == reqs[r] IN
                /\ q.current # "done" /\ q.update.status = "done" =>
                      /\ tasks'[q.id].status = "done"
                      /\ Has(q.update, "completedAt")
                      /\ tasks'[q.id].completedAt = q.update.completedAt
                      /\ tasks'[q.id].completedAt \in Times
                /\ q.current = "done" /\ q.update.status # "done" =>
                      /\ tasks'[q.id].status = q.update.status
                      /\ tasks'[q.id].completedAt = Null]_vars

\* An Update has just set a task done, with the time of the update as completedAt
C2_Witness ==
    /\ res.route = PatchRoute /\ res.status = 200
    /\ res.id \in DOMAIN tasks
    /\ tasks[res.id].status = "done"
    /\ now > 0 /\ tasks[res.id].completedAt = now

\* C3: an Update without status, or with the status the task has (done to
\* done included), leaves completedAt as it is, also when the body carries a
\* completedAt; the body changes allow-listed fields only.
C3_CompletedAtUntouched ==
    [][/\ \A r \in Slots :
             /\ Reads(r) =>
                   /\ DOMAIN reqs'[r].update \subseteq allowed \cup {"completedAt"}
                   /\ Has(reqs'[r].update, "completedAt") =>
                         tasks[reqs'[r].id].status # reqs'[r].update.status
             /\ Writes(r) /\ res'.status = 200 =>
                   LET q == reqs[r] IN
                   /\ q.current = q.update.status =>
                         tasks'[q.id].completedAt = tasks[q.id].completedAt
                   /\ \A k \in DOMAIN tasks[q.id] \ DOMAIN q.update :
                         tasks'[q.id][k] = tasks[q.id][k]
       /\ reqs' = reqs /\ res'.route = PatchRoute =>
             \A t \in DOMAIN tasks :
                /\ t \in DOMAIN tasks'
                /\ tasks'[t].completedAt = tasks[t].completedAt
                /\ tasks'[t].status = tasks[t].status]_vars

\* The body with title "b" also carries completedAt 0: its allow-listed
\* fields are stored and the task's completedAt is still absent
C3_Witness ==
    /\ res.route = PatchRoute /\ res.status = 200
    /\ res.id \in DOMAIN tasks
    /\ tasks[res.id].title = "b"
    /\ tasks[res.id].priority = 3
    /\ tasks[res.id].completedAt = Null

\* A step that answers a PATCH or DELETE request
Answers == res'.route \in {PatchRoute, DeleteRoute} /\ (res' # res \/ tasks' # tasks)

\* C8 as stated: PATCH and DELETE answer 400 to a malformed id and change no
\* task; they answer 404 to a well-formed id that matches no task and change
\* no task.
C8_Original ==
    [][Answers =>
          /\ res'.id = BadId => res'.status = 400 /\ tasks' = tasks
          /\ res'.id \in TaskIds /\ res'.id \notin DOMAIN tasks =>
                res'.status = 404 /\ tasks' = tasks]_vars

\* C8 amended: PATCH and DELETE answer 400 to a malformed id and change no
\* task; to a well-formed id that matches no task DELETE answers 404, and
\* PATCH answers 404 unless findByIdAndUpdate rejects a field of the body in
\* validation, which it does before it looks the task up: then 400; no task
\* changes.
C8_Amended ==
    [][Answers =>
          /\ res'.id = BadId =>
                res'.status = 400 /\ res'.error = "invalid id" /\ tasks' = tasks
          /\ res'.id \in TaskIds /\ res'.id \notin DOMAIN tasks =>
                /\ tasks' = tasks
                /\ \/ res'.status = 404
                   \/ /\ res'.route = PatchRoute
                      /\ res'.status = 400
                      /\ res'.error = "validation failed"]_vars

\* PATCH of an id that matches no task is answered 400 for a field that fails
\* validation
C8_Witness ==
    /\ res.route = PatchRoute /\ res.status = 400
    /\ res.error = "validation failed"
    /\ res.id \in TaskIds /\ res.id \notin DOMAIN tasks
    /\ nextTaskId = 1

\* C10: the findById read and the findByIdAndUpdate write of an Update are
\* separate steps; a task with completedAt present exactly when done loses
\* that only in the write of an Update whose read another Update's write has
\* made stale, so never when the Updates run one after the other.
C10_OnlyStaleWriteBreaks ==
    [][\A t \in DOMAIN tasks \cap DOMAIN tasks' :
          Consistent(tasks[t]) /\ ~Consistent(tasks'[t]) =>
             \E r \in Slots :
                /\ Writes(r)
                /\ reqs[r].id = t
                /\ reqs[r].current # tasks[t].status]_vars

\* Two interleaved Updates have left a task not done with completedAt present
C10_Witness ==
    \E t \in DOMAIN tasks :
       /\ tasks[t].status # "done"
       /\ tasks[t].completedAt # Null
       /\ res.route = PatchRoute /\ res.status = 200 /\ res.id = t

\* Slot r's Stop request performs its findById in this step and goes on
StopReads(r) == reqs[r].pc = "idle" /\ reqs'[r].pc = "save"

\* Slot r's Stop request performs its save() in this step
Saves(r) == reqs[r].pc = "save" /\ reqs'[r].pc = "idle"

\* The whole number of minutes nearest to ms >= 0 milliseconds, a half
\* counting up
NearestMinute(ms) ==
    CHOOSE m \in 0..(ms \div MsPerMinute + 1) :
       (2 * m - 1) * MsPerMinute <= 2 * ms /\ 2 * ms < (2 * m + 1) * MsPerMinute

\* round((T1 - T0) / 60000) when T1 >= T0 and 0 when T1 < T0, T0 and T1 in
\* clock steps
ClaimMinutes(T0, T1) ==
    IF T1 >= T0 THEN NearestMinute((T1 - T0) * ClockStepMs) ELSE 0

C5_Original ==
    \A s \in DOMAIN sessions :
       /\ sessions[s].durationMin \in Nat
       /\ sessions[s].durationMin =
             ClaimMinutes(sessions[s].startedAt, sessions[s].endedAt)

\* C5 amended: a Stop at T1 on a session started at T0 computes
\* round((T1 - T0) / 60000), 0 when T1 < T0, and its save() stores endedAt = T1
\* with that durationMin unless another Stop on the session has meanwhile
\* changed a field this Stop leaves as it read it; every session always has a
\* non-negative whole durationMin, a session is created with durationMin 0 and
\* endedAt = startedAt and keeps them until a Stop saves.
C5_Amended ==
    [][\A s \in DOMAIN sessions' :
          /\ sessions'[s].durationMin \in Nat
          /\ s \notin DOMAIN sessions =>
                /\ sessions'[s].durationMin = 0
                /\ sessions'[s].endedAt = sessions'[s].startedAt
          /\ \A r \in Slots :
                /\ StopReads(r) /\ reqs'[r].id = s =>
                      /\ reqs'[r].doc.endedAt = now
                      /\ reqs'[r].doc.durationMin =
                            ClaimMinutes(sessions[s].startedAt, now)
                /\ /\ Saves(r) /\ reqs[r].id = s
                   /\ \A k \in DOMAIN sessions[s] \ DOMAIN reqs[r].update :
                         sessions[s][k] = reqs[r].doc[k]
                   => /\ sessions'[s] = reqs[r].doc
                      /\ sessions'[s].durationMin =
                            ClaimMinutes(sessions'[s].startedAt, sessions'[s].endedAt)
          /\ s \in DOMAIN sessions /\ sessions'[s] # sessions[s] =>
                \E r \in Slots : Saves(r) /\ reqs[r].id = s]_vars

\* A Stop half a minute after the start has stored one minute
C5_Witness ==
    /\ res.route = StopRoute /\ res.status = 200
    /\ sessions[res.id] = res.body
    /\ (sessions[res.id].endedAt - sessions[res.id].startedAt) * ClockStepMs * 2
          = MsPerMinute
    /\ sessions[res.id].durationMin = 1

\* The calendar day of instant t in the calendar that is ref ahead of UTC
DayIn(ref, t) == (t + ref) \div Day

\* Some done task was completed j days before today, in that calendar
ClaimCovered(ref, j) ==
    \E i \in DOMAIN tasks :
       /\ tasks[i].status = "done"
       /\ tasks[i].completedAt # Null
       /\ DayIn(ref, tasks[i].completedAt) = DayIn(ref, now) - j

\* The largest k in 0..60 with today, today-1, ..., today-(k-1) all covered
ClaimStreak(ref) ==
    CHOOSE k \in 0..StreakDays :
       /\ \A j \in 0..(k - 1) : ClaimCovered(ref, j)
       /\ k = StreakDays \/ ~ClaimCovered(ref, k)

\* C6: GET /stats/overview returns as streak the number of consecutive
\* covered days counted back from today, today and the tasks' days bucketed in
\* one fixed calendar, whatever the server's time zone; 0 when no task was
\* completed today.
C6_Claim ==
    res.route = StatsRoute /\ res.status = 200 =>
       \E ref \in TzOffsets : res.body.streak = ClaimStreak(ref)

RECURSIVE ClaimWeeklyUpTo(_)
\* The durationMin of the sessions 1..n that started on one of the seven local
\* calendar days ending today, or later
ClaimWeeklyUpTo(n) ==
    IF n = 0 THEN 0
    ELSE ClaimWeeklyUpTo(n - 1) +
         (IF DayIn(tz, sessions[n].startedAt) >= DayIn(tz, now) - 6
            THEN sessions[n].durationMin ELSE 0)

\* C7: weeklyFocusMinutes is the sum of durationMin over exactly the sessions
\* started at or after local midnight six days before today; open sessions
\* add 0, earlier sessions nothing, and it is 0 with no session in the window.
C7_WeeklyFocusMinutes ==
    res.route = StatsRoute /\ res.status = 200 =>
       res.body.weeklyFocusMinutes = ClaimWeeklyUpTo(nextSessionId - 1)

\* Sessions of 15 and 30 minutes in the week, an older one and an open one:
\* 45 minutes
C7_Witness ==
    /\ res.route = StatsRoute /\ res.status = 200
    /\ DOMAIN sessions = 1..4
    /\ res.body.weeklyFocusMinutes = 45

\* C9: on every route a store call that fails is caught in the handler and
\* answered with a JSON error payload; no failure leaves a handler uncaught or
\* a request unanswered.
C9_Claim == unhandled = FALSE

====
